---- MODULE Spec2Model ----
(***************************************************************************)
(* Model of the howto command-line assistant (src/main.py): the persisted  *)
(* configuration and history records, the command dispatcher, the query    *)
(* turn with its blocking remote completion call, and continuous mode.     *)
(*                                                                         *)
(* Python strings are sequences of one-character strings, so that strip,   *)
(* join, startswith, isdigit, int, and ConfigParser's key normalisation,   *)
(* value interpolation and "key = value" line format are computed as the   *)
(* library computes them.                                                  *)
(***************************************************************************)
EXTENDS Integers, Sequences, FiniteSets, TLC

(* ------------------------------ bounds --------------------------------- *)

\* A query is started only while the stored history has fewer entries than this.
MaxStored == 4

(* ------------------------- string constants ---------------------------- *)

OPT_MODEL ==
    <<"m", "o", "d", "e", "l">>

OPT_HISTORY ==
    <<"h", "i", "s", "t", "o", "r", "y">>

OPT_GLOBALCONTEXT ==
    <<"g", "l", "o", "b", "a", "l", "c", "o", "n", "t", "e", "x", "t">>

DEFAULT_MODEL ==
    <<"g", "p", "t", "-", "4", "o", "-", "m", "i", "n", "i">>

DEFAULT_HISTORY ==
    <<"6">>

DEFAULT_USERINFO ==
    <<"[", "U", "s", "e", "r", " ", "h", "a", "s", " ", "n", "o", "t", " ", "s", "e", "t", " ",
       "a", "n", "y", " ", "u", "s", "e", "r", "i", "n", "f", "o", "]">>

DEFAULT_PROJECT_CONTEXT ==
    <<"[", "T", "h", "e", " ", "u", "s", "e", "r", " ", "h", "a", "s", " ", "n", "o", "t", " ",
       "s", "e", "t", " ", "c", "o", "n", "t", "e", "x", "t", "]">>

SYSTEM_PROMPT ==
    <<"Y", "o", "u", " ", "a", "r", "e", " ", "a", "n", " ", "a", "s", "s", "i", "s", "t", "a",
       "n", "t", " ", "c", "o", "n", "t", "a", "c", "t", "e", "d", " ", "v", "i", "a", " ", "a",
       " ", "'", "h", "o", "w", "t", "o", "'", " ", "C", "L", "I", " ", "c", "o", "m", "m", "a",
       "n", "d", ".", " ", "Q", "u", "e", "s", "t", "i", "o", "n", "s", " ", "m", "a", "y", " ",
       "b", "e", " ", "f", "o", "r", "m", "a", "t", "t", "e", "d", " ", "w", "e", "i", "r", "d",
       "l", "y", ".", " ", "I", "f", " ", "s", "o", ",", " ", "a", "s", "s", "u", "m", "e", " ",
       "e", "a", "c", "h", " ", "q", "u", "e", "s", "t", "i", "o", "n", " ", "i", "s", " ", "p",
       "r", "e", "c", "e", "d", "e", "d", " ", "w", "i", "t", "h", " ", "'", "h", "o", "w", " ",
       "t", "o", "'", " ", "o", "r", " ", "s", "i", "m", "i", "l", "a", "r", ".", " ", "I", "f",
       " ", "t", "h", "e", " ", "q", "u", "e", "s", "t", "i", "o", "n", " ", "c", "a", "n", " ",
       "b", "e", " ", "a", "n", "s", "w", "e", "r", "e", "d", " ", "i", "n", " ", "o", "n", "e",
       " ", "o", "r", " ", "t", "w", "o", " ", "s", "e", "n", "t", "e", "n", "c", "e", "s", " ",
       "w", "i", "t", "h", "o", "u", "t", " ", "i", "m", "m", "e", "d", "i", "a", "t", "e", "l",
       "y", " ", "i", "m", "p", "o", "r", "t", "a", "n", "t", " ", "i", "n", "f", "o", "r", "m",
       "a", "t", "i", "o", "n", ",", " ", "k", "e", "e", "p", " ", "r", "e", "s", "p", "o", "n",
       "s", "e", "s", " ", "s", "h", "o", "r", "t", ".">>

USERINFO_PREFIX ==
    <<"T", "h", "e", " ", "u", "s", "e", "r", " ", "p", "r", "o", "v", "i", "d", "e", "d", " ",
       "t", "h", "e", " ", "f", "o", "l", "l", "o", "w", "i", "n", "g", " ", "i", "n", "f", "o",
       "r", "m", "a", "t", "i", "o", "n", " ", "a", "b", "o", "u", "t", " ", "t", "h", "e", "m",
       "s", "e", "l", "f", " ", "o", "r", " ", "t", "h", "e", "i", "r", " ", "s", "y", "s", "t",
       "e", "m", " ", "o", "r", " ", "p", "l", "a", "t", "f", "o", "r", "m", " ", "f", "o", "r",
       " ", "c", "o", "n", "t", "e", "x", "t", ":", " ", "\"">>

PROJECT_PREFIX ==
    <<"T", "h", "e", " ", "u", "s", "e", "r", " ", "p", "r", "o", "v", "i", "d", "e", "d", " ",
       "t", "h", "e", " ", "f", "o", "l", "l", "o", "w", "i", "n", "g", " ", "i", "n", "f", "o",
       "r", "m", "a", "t", "i", "o", "n", " ", "a", "b", "o", "u", "t", " ", "t", "h", "e", " ",
       "c", "u", "r", "r", "e", "n", "t", " ", "p", "r", "o", "j", "e", "c", "t", " ", "/", " ",
       "w", "o", "r", "k", "i", "n", "g", " ", "d", "i", "r", "e", "c", "t", "o", "r", "y", " ",
       "f", "o", "r", " ", "c", "o", "n", "t", "e", "x", "t", ":", " ", "\"">>

QUIT ==
    <<"q", "u", "i", "t">>

MODEL_GPT4O ==
    <<"g", "p", "t", "-", "4", "o">>

FLAG_HELP_LONG == <<"-", "-", "h", "e", "l", "p">>
FLAG_H == <<"-", "h">>
FLAG_CLEARHISTORY_LONG == <<"-", "-", "c", "l", "e", "a", "r", "h", "i", "s", "t", "o", "r", "y">>
FLAG_CH == <<"-", "c", "h">>
FLAG_SETMODEL == <<"-", "-", "s", "e", "t", "m", "o", "d", "e", "l">>
FLAG_SETHISTORY == <<"-", "-", "s", "e", "t", "h", "i", "s", "t", "o", "r", "y">>
FLAG_PRINTHISTORY_LONG == <<"-", "-", "p", "r", "i", "n", "t", "h", "i", "s", "t", "o", "r", "y">>
FLAG_PH == <<"-", "p", "h">>
FLAG_SETUSERINFO_LONG == <<"-", "-", "s", "e", "t", "u", "s", "e", "r", "i", "n", "f", "o">>
FLAG_SU == <<"-", "s", "u">>
FLAG_CLEARUSERINFO_LONG ==
    <<"-", "-", "c", "l", "e", "a", "r", "u", "s", "e", "r", "i", "n", "f", "o">>
FLAG_CU == <<"-", "c", "u">>
FLAG_CONTINUOUS_LONG == <<"-", "-", "c", "o", "n", "t", "i", "n", "u", "o", "u", "s">>
FLAG_C == <<"-", "c">>
FLAG_SETPROJECTCONTEXT_LONG ==
    <<"-", "-", "s", "e", "t", "p", "r", "o", "j", "e", "c", "t", "c", "o", "n", "t", "e", "x", "t">>
FLAG_SP == <<"-", "s", "p">>
FLAG_CLEARPROJECTCONTEXT_LONG ==
    <<"-", "-", "c", "l", "e", "a", "r", "p", "r", "o", "j", "e", "c", "t", "c", "o", "n", "t", "e", "x", "t">>
FLAG_CP == <<"-", "c", "p">>

(* --------------------------- Python strings ---------------------------- *)

UPPERCASE == <<"A", "B", "C", "D", "E", "F", "G", "H", "I", "J", "K", "L", "M",
               "N", "O", "P", "Q", "R", "S", "T", "U", "V", "W", "X", "Y", "Z">>

LOWERCASE == <<"a", "b", "c", "d", "e", "f", "g", "h", "i", "j", "k", "l", "m",
               "n", "o", "p", "q", "r", "s", "t", "u", "v", "w", "x", "y", "z">>

\* The characters int() reads as decimal digits.
DECIMALS == <<"0", "1", "2", "3", "4", "5", "6", "7", "8", "9">>

\* Characters str.isdigit() accepts that are no decimal digit (superscripts).
SUPERSCRIPTS == {"²", "³"}

WHITESPACE == {" ", "\t", "\n"}

\* The delimiters ConfigParser splits an option line at.
DELIMITERS == {"=", ":"}

Range(s) == {s[i] : i \in 1..Len(s)}

\* str.lower() on one character.
LowerChar(c) ==
    IF \E i \in 1..Len(UPPERCASE) : UPPERCASE[i] = c
    THEN LOWERCASE[CHOOSE i \in 1..Len(UPPERCASE) : UPPERCASE[i] = c]
    ELSE c

\* str.lower()
Lower(s) == [i \in 1..Len(s) |-> LowerChar(s[i])]

RECURSIVE LStrip(_)
\* str.lstrip()
LStrip(s) ==
    IF s # <<>> /\ Head(s) \in WHITESPACE THEN LStrip(Tail(s)) ELSE s

RECURSIVE RStrip(_)
\* str.rstrip()
RStrip(s) ==
    IF s # <<>> /\ s[Len(s)] \in WHITESPACE
    THEN RStrip(SubSeq(s, 1, Len(s) - 1))
    ELSE s

\* str.strip()
Strip(s) == RStrip(LStrip(s))

RECURSIVE Join(_)
\* " ".join(tokens)
Join(tokens) ==
    IF tokens = <<>> THEN <<>>
    ELSE IF Len(tokens) = 1 THEN tokens[1]
    ELSE tokens[1] \o <<" ">> \o Join(Tail(tokens))

\* s.startswith(p)
StartsWith(s, p) == Len(s) >= Len(p) /\ SubSeq(s, 1, Len(p)) = p

\* str.isdigit(): non-empty and every character a digit character.
IsDigit(s) ==
    /\ s # <<>>
    /\ \A i \in 1..Len(s) : s[i] \in Range(DECIMALS) \cup SUPERSCRIPTS

\* Whether int(s) returns, for s without sign, spaces or underscores.
IntParses(s) == s # <<>> /\ \A i \in 1..Len(s) : s[i] \in Range(DECIMALS)

DigitValue(c) == (CHOOSE i \in 1..Len(DECIMALS) : DECIMALS[i] = c) - 1

RECURSIVE IntOf(_)
\* int(s) for a string that IntParses.
IntOf(s) ==
    IF s = <<>> THEN 0
    ELSE 10 * IntOf(SubSeq(s, 1, Len(s) - 1)) + DigitValue(s[Len(s)])

\* lst[start:] for a possibly negative start, as Python resolves slice indices.
SliceFrom(lst, start) ==
    LET n == Len(lst)
        lo == IF start < 0
              THEN (IF n + start < 0 THEN 0 ELSE n + start)
              ELSE (IF start > n THEN n ELSE start)
    IN  SubSeq(lst, lo + 1, n)

(* ----------------------------- ConfigParser ---------------------------- *)
(* A parser is a function from section names to functions from option      *)
(* names to raw values.  A configuration file is, per section, the set of   *)
(* "key = value" lines that RawConfigParser.write emits.                    *)

SECTIONS == {"ai model", "user info", "project context"}

EmptyMap == [k \in {} |-> <<>>]

\* ConfigParser() before anything is read.
NewParser == [s \in {} |-> EmptyMap]

\* RawConfigParser.optionxform
OptionXForm(option) == Lower(option)

HasSection(config, section) == section \in DOMAIN config

HasOption(config, section, option) ==
    /\ section \in DOMAIN config
    /\ OptionXForm(option) \in DOMAIN config[section]

AddSection(config, section) ==
    [s \in DOMAIN config \cup {section} |->
        IF s \in DOMAIN config THEN config[s] ELSE EmptyMap]

RECURSIVE DropEscapes(_)
\* value.replace("%%", "")
DropEscapes(value) ==
    IF Len(value) < 2 THEN value
    ELSE IF value[1] = "%" /\ value[2] = "%"
         THEN DropEscapes(SubSeq(value, 3, Len(value)))
         ELSE <<value[1]>> \o DropEscapes(Tail(value))

\* BasicInterpolation.before_set accepts the value (no %(name)s in the alphabet).
SetAccepts(value) == "%" \notin Range(DropEscapes(value))

\* config[section][option] = value, for a value before_set accepts.
SetOption(config, section, option, value) ==
    LET key == OptionXForm(option)
        old == config[section]
        new == [k \in DOMAIN old \cup {key} |-> IF k = key THEN value ELSE old[k]]
    IN  [config EXCEPT ![section] = new]

\* config.remove_option(section, option); removing a missing option is no error.
RemoveOption(config, section, option) ==
    LET key == OptionXForm(option)
        old == config[section]
    IN  [config EXCEPT ![section] = [k \in DOMAIN old \ {key} |-> old[k]]]

RECURSIVE InterpolateOK(_)
\* BasicInterpolation.before_get returns (every "%" is followed by "%").
InterpolateOK(raw) ==
    IF raw = <<>> THEN TRUE
    ELSE IF raw[1] # "%" THEN InterpolateOK(Tail(raw))
    ELSE Len(raw) >= 2 /\ raw[2] = "%" /\ InterpolateOK(SubSeq(raw, 3, Len(raw)))

RECURSIVE Interpolate(_)
\* BasicInterpolation.before_get: "%%" reads as "%".
Interpolate(raw) ==
    IF raw = <<>> THEN <<>>
    ELSE IF raw[1] # "%" THEN <<raw[1]>> \o Interpolate(Tail(raw))
    ELSE <<"%">> \o Interpolate(SubSeq(raw, 3, Len(raw)))

\* One option line of RawConfigParser.write.
WriteLine(key, value) == key \o <<" ", "=", " ">> \o value

\* RawConfigParser.write: every section, every option, raw values.
WriteConfig(config) ==
    [s \in DOMAIN config |-> {WriteLine(k, config[s][k]) : k \in DOMAIN config[s]}]

RECURSIVE DelimiterFrom(_, _)
\* Position of the first delimiter at or after position i (0 when there is none).
DelimiterFrom(line, i) ==
    IF i > Len(line) THEN 0
    ELSE IF line[i] \in DELIMITERS THEN i
    ELSE DelimiterFrom(line, i + 1)

\* Position of the first delimiter of an option line (0 when there is none).
FirstDelimiter(line) == DelimiterFrom(line, 1)

\* RawConfigParser._read on one option line: the option name is the text before
\* the first delimiter, right-stripped and lower-cased; the value is the rest.
ParseKey(line) ==
    LET d == FirstDelimiter(line)
    IN  OptionXForm(RStrip(SubSeq(line, 1, IF d = 0 THEN Len(line) ELSE d - 1)))

ParseValue(line) ==
    LET d == FirstDelimiter(line)
    IN  IF d = 0 THEN <<>> ELSE Strip(SubSeq(line, d + 1, Len(line)))

\* config.read raises: an empty option name (ParsingError), an option without
\* delimiter (allow_no_value is off) or the same option twice in a section
\* (DuplicateOptionError, strict mode).
ReadRaises(text) ==
    \E s \in DOMAIN text :
        \/ \E l \in text[s] : ParseKey(l) = <<>> \/ FirstDelimiter(l) = 0
        \/ \E l1, l2 \in text[s] : l1 # l2 /\ ParseKey(l1) = ParseKey(l2)

\* config.read of a file that parses.
ReadConfig(text) ==
    [s \in DOMAIN text |->
        [k \in {ParseKey(l) : l \in text[s]} |->
            ParseValue(CHOOSE l \in text[s] : ParseKey(l) = k)]]

(* ------------------------------- inputs -------------------------------- *)

\* typing.get_args(ChatModel): the static model names (two of them here).
VALID_MODELS == {DEFAULT_MODEL, MODEL_GPT4O}

\* Working directories: two that differ in case only, one holding a delimiter.
Dirs == {<<"/", "a">>, <<"/", "A">>, <<"/", "a", "=", "b">>}

\* Free text given to --setuserinfo and --setprojectcontext.
Texts == {<<"r", "s">>, <<"5", "%">>, <<"5", "%", "%">>}

\* Second arguments given to --setmodel.
ModelArgs == {MODEL_GPT4O, DEFAULT_MODEL, <<"n", "o">>}

\* Second arguments given to --sethistory.
HistoryArgs == {<<"0">>, <<"2">>, <<"3">>, <<"²">>, <<"-", "1">>, <<"x">>}

\* One command line per form of every administrative flag.
AdminArgvs ==
    {<<FLAG_HELP_LONG>>, <<FLAG_H, <<"l", "s">>>>, <<FLAG_CH>>, <<FLAG_CLEARHISTORY_LONG>>,
     <<FLAG_SETMODEL>>, <<FLAG_SETHISTORY>>, <<FLAG_PH>>, <<FLAG_PRINTHISTORY_LONG>>,
     <<FLAG_SU>>, <<FLAG_SETUSERINFO_LONG, <<" ">>>>, <<FLAG_CU>>,
     <<FLAG_CLEARUSERINFO_LONG>>, <<FLAG_C>>, <<FLAG_CONTINUOUS_LONG>>,
     <<FLAG_SP>>, <<FLAG_SETPROJECTCONTEXT_LONG>>, <<FLAG_CP>>,
     <<FLAG_CLEARPROJECTCONTEXT_LONG>>}

\* The command lines (sys.argv[1:]) of the configuration-centred specification:
\* every administrative flag, every model, text and directory, one question.
Argvs ==
    AdminArgvs
    \cup {<<FLAG_SETMODEL, m>> : m \in ModelArgs}
    \cup {<<FLAG_SETHISTORY, n>> : n \in {<<"x">>, <<"-", "1">>}}
    \cup {<<FLAG_SU, t>> : t \in {<<"r", "s">>, <<"5", "%">>}}
    \cup {<<FLAG_SP, t>> : t \in Texts}
    \cup {<<<<"l", "s">>>>, <<>>}

\* Lines typed at the continuous-mode prompt there.
Lines == {QUIT, <<>>, <<"l", "s">>}

\* The command lines of the turn-centred specification: every history length,
\* several questions, one directory.
TurnArgvs ==
    {<<FLAG_H>>, <<FLAG_CH>>, <<FLAG_SETMODEL>>, <<FLAG_PH>>, <<FLAG_SU>>, <<FLAG_CU>>,
     <<FLAG_C>>, <<FLAG_SP>>, <<FLAG_CP>>}
    \cup {<<FLAG_SETHISTORY, n>> : n \in HistoryArgs}
    \cup {<<<<"l", "s">>>>, <<<<"c", "d">>, <<"x">>>>, <<<<" ">>>>, <<<<"-", "x">>>>, <<>>}

TurnDirs == {<<"/", "a">>}

TurnLines == {QUIT, <<>>, <<" ">>, <<"l", "s">>, FLAG_CH}

\* The command lines of the administration-centred specification: every
\* administrative flag without and with further arguments, one valid value for
\* every setter, one question.
AdminOnlyArgvs ==
    {<<FLAG_H>>, <<FLAG_CH>>, <<FLAG_SETMODEL>>, <<FLAG_SETHISTORY>>, <<FLAG_PH>>, <<FLAG_SU>>,
     <<FLAG_CU>>, <<FLAG_SP>>, <<FLAG_CP>>}
    \cup {<<f, <<"l", "s">>>> : f \in {FLAG_H, FLAG_CH, FLAG_PH, FLAG_CU, FLAG_CP}}
    \cup {<<FLAG_SETMODEL, MODEL_GPT4O>>, <<FLAG_SETHISTORY, <<"2">>>>,
          <<FLAG_SU, <<"r", "s">>>>, <<FLAG_SP, <<"r", "s">>, <<"x">>>>}

AdminArgvsAndQuery == AdminOnlyArgvs \cup {<<FLAG_C>>, <<<<"l", "s">>>>}

\* The command lines of the load-centred specification: one per command.
LoadArgvs ==
    {<<FLAG_H>>, <<FLAG_CH>>, <<FLAG_SETMODEL>>, <<FLAG_SETHISTORY>>, <<FLAG_PH>>, <<FLAG_SU>>,
     <<FLAG_CU>>, <<FLAG_C>>, <<FLAG_SP>>, <<FLAG_CP>>, <<<<"l", "s">>>>}

LoadLines == {QUIT, <<"l", "s">>}

\* Non-empty contents the remote completion returns.
Answers == {<<"o", "k">>}

(* -------------------------------- state -------------------------------- *)

VARIABLES
    cfgFile,    \* CONFIG_FILE: whether it exists, and its option lines per section
    histFile,   \* HISTORY_FILE: whether it exists, and the entries it holds
    pc,         \* "idle": no process; "prompt": input() blocks; "call": the remote
                \* call blocks; "done": the process has ended
    argv,       \* sys.argv[1:] of the invocation
    cwd,        \* os.getcwd() of the invocation
    config,     \* main's ConfigParser
    query,      \* run_query's query parameter while the remote call blocks
    history,    \* run_query's history list while the remote call blocks
    messages,   \* the messages argument of the remote call in flight
    out,        \* what the last step printed: a sequence of <<text, value>>
    exitcode    \* exit status of the ended process

vars == <<cfgFile, histFile, pc, argv, cwd, config, query, history, messages, out,
          exitcode>>

files == <<cfgFile, histFile>>

Entry(role, content) == [role |-> role, content |-> content]

(* ------------------------- persisted state store ----------------------- *)

\* load_history
load_history(file) == IF file.exists THEN file.entries ELSE <<>>

\* save_history: the file after json.dump(history)
save_history(h) == [exists |-> TRUE, entries |-> h]

WithSection(c, section) == IF HasSection(c, section) THEN c ELSE AddSection(c, section)

\* Mutant of WithDefault: the default is assigned without the has_option test.
WithDefault_Overwrites(c, section, option, value) ==
    SetOption(c, section, option, value)

WithDefault(c, section, option, value) ==
    IF HasOption(c, section, option) THEN c ELSE SetOption(c, section, option, value)

\* load_config raises when config.read does.
load_config_raises(file) == file.exists /\ ReadRaises(file.text)

\* load_config: read the file if it exists, then fill in sections and defaults.
load_config(file) ==
    LET c0 == IF file.exists THEN ReadConfig(file.text) ELSE NewParser
        c1 == WithSection(c0, "ai model")
        c2 == WithDefault(c1, "ai model", OPT_MODEL, DEFAULT_MODEL)
        c3 == WithDefault(c2, "ai model", OPT_HISTORY, DEFAULT_HISTORY)
        c4 == WithSection(c3, "user info")
        c5 == WithDefault(c4, "user info", OPT_GLOBALCONTEXT, DEFAULT_USERINFO)
    IN  WithSection(c5, "project context")

\* save_config: the file after config.write
save_config(c) == [exists |-> TRUE, text |-> WriteConfig(c)]

(* -------------------------- configuration model ------------------------ *)

RawOption(c, section, option) == c[section][OptionXForm(option)]

\* config[section][option] raises InterpolationSyntaxError.
GetRaises(c, section, option) == ~InterpolateOK(RawOption(c, section, option))

GetOption(c, section, option) == Interpolate(RawOption(c, section, option))

set_userinfo(c, userinfo) == SetOption(c, "user info", OPT_GLOBALCONTEXT, userinfo)

get_userinfo(c) == GetOption(c, "user info", OPT_GLOBALCONTEXT)

set_history_length(c, length) == SetOption(c, "ai model", OPT_HISTORY, length)

get_history_length(c) == GetOption(c, "ai model", OPT_HISTORY)

set_model(c, model) == SetOption(c, "ai model", OPT_MODEL, model)

get_model(c) == GetOption(c, "ai model", OPT_MODEL)

\* set_project_context with a context string.
set_project_context(c, directory, context) ==
    SetOption(c, "project context", directory, context)

\* set_project_context with context None.
clear_project_context(c, directory) == RemoveOption(c, "project context", directory)

get_project_context_raises(c, directory) ==
    HasOption(c, "project context", directory) /\ GetRaises(c, "project context", directory)

get_project_context(c, directory) ==
    IF HasOption(c, "project context", directory)
    THEN GetOption(c, "project context", directory)
    ELSE DEFAULT_PROJECT_CONTEXT

(* --------------------------- command dispatch -------------------------- *)

\* The branch of main's if/elif chain that the command line takes.
Command(args) ==
    IF args = <<>> \/ ~StartsWith(args[1], <<"-">>) THEN "query"
    ELSE IF args[1] \in {FLAG_HELP_LONG, FLAG_H} THEN "help"
    ELSE IF args[1] \in {FLAG_CLEARHISTORY_LONG, FLAG_CH} THEN "clearhistory"
    ELSE IF args[1] = FLAG_SETMODEL THEN "setmodel"
    ELSE IF args[1] = FLAG_SETHISTORY THEN "sethistory"
    ELSE IF args[1] \in {FLAG_PRINTHISTORY_LONG, FLAG_PH} THEN "printhistory"
    ELSE IF args[1] \in {FLAG_SETUSERINFO_LONG, FLAG_SU} THEN "setuserinfo"
    ELSE IF args[1] \in {FLAG_CLEARUSERINFO_LONG, FLAG_CU} THEN "clearuserinfo"
    ELSE IF args[1] \in {FLAG_CONTINUOUS_LONG, FLAG_C} THEN "continuous"
    ELSE IF args[1] \in {FLAG_SETPROJECTCONTEXT_LONG, FLAG_SP} THEN "setprojectcontext"
    ELSE IF args[1] \in {FLAG_CLEARPROJECTCONTEXT_LONG, FLAG_CP} THEN "clearprojectcontext"
    ELSE "query"

\* arg2 is not None
HasArg2(args) == Len(args) > 1

\* " ".join(sys.argv[2:]).strip()
RestText(args) == Strip(Join(Tail(args)))

\* " ".join(sys.argv[1:]).strip()
QueryText(args) == Strip(Join(args))

Usage == <<<<"Usage: howto [question] [OPTIONS] [--help, -h]", <<>>>>>>

\* The process ends: its memory is gone, its output and status remain.
Exit(code, printed) ==
    /\ pc' = "done"
    /\ exitcode' = code
    /\ out' = printed
    /\ config' = NewParser
    /\ query' = <<>>
    /\ history' = <<>>
    /\ messages' = <<>>

\* An exception no handler catches: the traceback ends with the error.
Crash(error) == Exit(1, <<<<"Traceback (most recent call last):", <<>>>>, <<error, <<>>>>>>)

\* A process starts with this command line in this directory and takes this
\* branch of main.
Start(args, dir, command) ==
    /\ pc = "idle"
    /\ Command(args) = command
    /\ argv' = args
    /\ cwd' = dir

InterpolationError == "configparser.InterpolationSyntaxError"

\* main's first statement raises (config.read): main ends before it dispatches.
LoadFails == Crash("configparser.Error") /\ UNCHANGED files

\* The ended process is gone: the next invocation starts from the files alone.
Return ==
    /\ pc = "done"
    /\ pc' = "idle"
    /\ argv' = <<>>
    /\ cwd' = <<>>
    /\ out' = <<>>
    /\ exitcode' = 0
    /\ UNCHANGED <<files, config, query, history, messages>>

(* ------------------------------ query turn ----------------------------- *)

\* Mutant of Messages: the history is placed before the system messages.
Messages_HistoryFirst(userinfo, project_context, h) ==
    h \o <<Entry("system", SYSTEM_PROMPT),
           Entry("system", USERINFO_PREFIX \o userinfo \o <<"\"">>),
           Entry("system", PROJECT_PREFIX \o project_context \o <<"\"">>)>>

\* The messages argument of CLIENT.chat.completions.create.
Messages(userinfo, project_context, h) ==
    <<Entry("system", SYSTEM_PROMPT),
      Entry("system", USERINFO_PREFIX \o userinfo \o <<"\"">>),
      Entry("system", PROJECT_PREFIX \o project_context \o <<"\"">>)>> \o h

\* run_query up to the remote call: an empty query prints the usage and exits;
\* otherwise the history is loaded, the question appended and the call made.
run_query(q, c, dir) ==
    IF q = <<>> THEN Exit(1, Usage)
    ELSE IF \/ GetRaises(c, "user info", OPT_GLOBALCONTEXT)
            \/ get_project_context_raises(c, dir)
            \/ GetRaises(c, "ai model", OPT_MODEL)
    THEN Crash(InterpolationError)
    ELSE LET h == load_history(histFile) \o <<Entry("user", q)>>
         IN  /\ Len(load_history(histFile)) < MaxStored
             /\ pc' = "call"
             /\ query' = q
             /\ history' = h
             /\ messages' = Messages(get_userinfo(c), get_project_context(c, dir), h)
             /\ config' = c
             /\ out' = <<>>
             /\ UNCHANGED exitcode

\* Mutant of Truncate: keeps the oldest entries, history[:int(...)].
Truncate_KeepsOldest(h, length) ==
    SubSeq(h, 1, IF IntOf(length) > Len(h) THEN Len(h) ELSE IntOf(length))

\* The slice run_query saves: history[-int(config["ai model"]["history"]):]
Truncate(h, length) == SliceFrom(h, 0 - IntOf(length))

\* The prompt of continuous mode.
Prompt(c) == <<<<"Ask >> ", get_model(c)>>>>

\* Mutant of Respond: run_query saves a freshly defaulted configuration instead
\* of the one it was given.
Respond_SavesFreshConfig(answer) ==
    /\ pc = "call"
    /\ LET h == Append(history, Entry("assistant", answer))
           length == RawOption(config, "ai model", OPT_HISTORY)
       IN  IF GetRaises(config, "ai model", OPT_HISTORY) \/ ~IntParses(Interpolate(length))
           THEN Crash("ValueError: invalid literal for int()") /\ UNCHANGED files
           ELSE /\ histFile' = save_history(Truncate(h, get_history_length(config)))
                /\ cfgFile' = save_config(load_config([exists |-> FALSE, text |-> NewParser]))
                /\ IF Command(argv) = "continuous"
                   THEN /\ pc' = "prompt"
                        /\ out' = <<<<"# ", answer>>>> \o Prompt(config)
                        /\ query' = <<>>
                        /\ history' = <<>>
                        /\ messages' = <<>>
                        /\ UNCHANGED <<config, exitcode>>
                   ELSE Exit(0, <<<<"# ", answer>>>>)
    /\ UNCHANGED <<argv, cwd>>

\* The remote call returns a non-empty answer: it is printed and appended, the
\* truncated history and the configuration are saved; a one-shot process ends,
\* continuous mode prompts again.
Respond(answer) ==
    /\ pc = "call"
    /\ LET h == Append(history, Entry("assistant", answer))
           length == RawOption(config, "ai model", OPT_HISTORY)
       IN  IF GetRaises(config, "ai model", OPT_HISTORY) \/ ~IntParses(Interpolate(length))
           THEN Crash("ValueError: invalid literal for int()") /\ UNCHANGED files
           ELSE /\ histFile' = save_history(Truncate(h, get_history_length(config)))
                /\ cfgFile' = save_config(config)
                /\ IF Command(argv) = "continuous"
                   THEN /\ pc' = "prompt"
                        /\ out' = <<<<"# ", answer>>>> \o Prompt(config)
                        /\ query' = <<>>
                        /\ history' = <<>>
                        /\ messages' = <<>>
                        /\ UNCHANGED <<config, exitcode>>
                   ELSE Exit(0, <<<<"# ", answer>>>>)
    /\ UNCHANGED <<argv, cwd>>

\* Mutant of RespondEmpty: the history with the unanswered question is saved
\* before the ValueError is raised.
RespondEmpty_SavesHistory ==
    /\ pc = "call"
    /\ histFile' = save_history(history)
    /\ Crash("ValueError: OpenAI response is empty")
    /\ UNCHANGED <<cfgFile, argv, cwd>>

\* The remote call returns empty content: run_query raises ValueError.
RespondEmpty ==
    /\ pc = "call"
    /\ Crash("ValueError: OpenAI response is empty")
    /\ UNCHANGED <<files, argv, cwd>>

\* Mutant of RemoteRaises: the history with the question is saved although the
\* call failed.
RemoteRaises_SavesHistory ==
    /\ pc = "call"
    /\ histFile' = save_history(history)
    /\ Crash("openai.APIError")
    /\ UNCHANGED <<cfgFile, argv, cwd>>

\* The remote call raises a transport or service error.
RemoteRaises ==
    /\ pc = "call"
    /\ Crash("openai.APIError")
    /\ UNCHANGED <<files, argv, cwd>>

\* KeyboardInterrupt while input() or the remote call blocks: the handler at
\* the bottom of the file prints an empty line and exits.
Interrupt ==
    /\ pc \in {"prompt", "call"}
    /\ Exit(1, <<<<"", <<>>>>>>)
    /\ UNCHANGED <<files, argv, cwd>>

(* ------------------------------- commands ------------------------------ *)

\* Mutant of Help: print_help returns instead of leaving through sys.exit(1),
\* and main goes on to its last statement.
Help_FallsThrough(args, dir) ==
    /\ Start(args, dir, "help")
    /\ IF load_config_raises(cfgFile) THEN LoadFails
       ELSE /\ run_query(QueryText(args), load_config(cfgFile), dir)
            /\ UNCHANGED files

Help(args, dir) ==
    /\ Start(args, dir, "help")
    /\ IF load_config_raises(cfgFile) THEN LoadFails
       ELSE /\ Exit(1, Usage)
            /\ UNCHANGED files

ClearHistory(args, dir) ==
    /\ Start(args, dir, "clearhistory")
    /\ IF load_config_raises(cfgFile) THEN LoadFails
       ELSE /\ histFile' = save_history(<<>>)
            /\ Exit(1, <<<<"Cleared history.", <<>>>>>>)
            /\ UNCHANGED cfgFile

\* Mutant of SetModel: the membership check against the valid models is missing.
SetModel_Unchecked(args, dir) ==
    /\ Start(args, dir, "setmodel")
    /\ IF load_config_raises(cfgFile) THEN LoadFails
       ELSE LET c == load_config(cfgFile)
            IN  IF ~HasArg2(args)
                THEN /\ Exit(1, <<<<"Current model is: ", get_model(c)>>>>)
                     /\ UNCHANGED files
                ELSE /\ cfgFile' = save_config(set_model(c, args[2]))
                     /\ Exit(1, <<<<"Model set to: ", get_model(set_model(c, args[2]))>>>>)
                     /\ UNCHANGED histFile

SetModel(args, dir) ==
    /\ Start(args, dir, "setmodel")
    /\ IF load_config_raises(cfgFile) THEN LoadFails
       ELSE LET c == load_config(cfgFile)
            IN  IF ~HasArg2(args)
                THEN /\ IF GetRaises(c, "ai model", OPT_MODEL) THEN Crash(InterpolationError)
                        ELSE Exit(1, <<<<"Current model is: ", get_model(c)>>>>)
                     /\ UNCHANGED files
                ELSE IF args[2] \notin VALID_MODELS
                THEN /\ Exit(1, <<<<"Invalid model: ", args[2]>>, <<"Must be one of:", <<>>>>>>)
                     /\ UNCHANGED files
                ELSE /\ cfgFile' = save_config(set_model(c, args[2]))
                     /\ Exit(1, <<<<"Model set to: ", get_model(set_model(c, args[2]))>>>>)
                     /\ UNCHANGED histFile

\* Mutant of SetHistory: an accepted length is applied to the stored history at once.
SetHistory_Truncates(args, dir) ==
    /\ Start(args, dir, "sethistory")
    /\ IF load_config_raises(cfgFile) THEN LoadFails
       ELSE LET c == load_config(cfgFile)
            IN  IF ~HasArg2(args)
                THEN /\ IF GetRaises(c, "ai model", OPT_HISTORY) THEN Crash(InterpolationError)
                        ELSE Exit(1, <<<<"History length is: ", get_history_length(c)>>>>)
                     /\ UNCHANGED files
                ELSE IF ~IsDigit(args[2])
                THEN /\ Exit(1, <<<<"History length must be a number.", <<>>>>>>)
                     /\ UNCHANGED files
                ELSE /\ cfgFile' = save_config(set_history_length(c, args[2]))
                     /\ histFile' = save_history(Truncate(load_history(histFile), args[2]))
                     /\ Exit(1, <<<<"History length set to: ",
                                    get_history_length(set_history_length(c, args[2]))>>>>)

SetHistory(args, dir) ==
    /\ Start(args, dir, "sethistory")
    /\ IF load_config_raises(cfgFile) THEN LoadFails
       ELSE LET c == load_config(cfgFile)
            IN  IF ~HasArg2(args)
                THEN /\ IF GetRaises(c, "ai model", OPT_HISTORY) THEN Crash(InterpolationError)
                        ELSE Exit(1, <<<<"History length is: ", get_history_length(c)>>>>)
                     /\ UNCHANGED files
                ELSE IF ~IsDigit(args[2])
                THEN /\ Exit(1, <<<<"History length must be a number.", <<>>>>>>)
                     /\ UNCHANGED files
                ELSE /\ cfgFile' = save_config(set_history_length(c, args[2]))
                     /\ Exit(1, <<<<"History length set to: ",
                                    get_history_length(set_history_length(c, args[2]))>>>>)
                     /\ UNCHANGED histFile

\* One printed block per entry: user entries at the margin, assistant entries indented.
FormatHistory(h) ==
    [i \in 1..Len(h) |->
        IF h[i].role # "assistant" THEN <<"# ", h[i].content>> ELSE <<"   # ", h[i].content>>]

PrintHistory(args, dir) ==
    /\ Start(args, dir, "printhistory")
    /\ IF load_config_raises(cfgFile) THEN LoadFails
       ELSE /\ Exit(1, FormatHistory(load_history(histFile)))
            /\ UNCHANGED files

SetUserInfo(args, dir) ==
    /\ Start(args, dir, "setuserinfo")
    /\ IF load_config_raises(cfgFile) THEN LoadFails
       ELSE LET c == load_config(cfgFile)
                userinfo == RestText(args)
            IN  IF userinfo = <<>>
                THEN /\ IF GetRaises(c, "user info", OPT_GLOBALCONTEXT)
                        THEN Crash(InterpolationError)
                        ELSE Exit(1, <<<<"Current userinfo is:", get_userinfo(c)>>>>)
                     /\ UNCHANGED files
                ELSE IF ~SetAccepts(userinfo)
                THEN Crash("ValueError: invalid interpolation syntax") /\ UNCHANGED files
                ELSE /\ cfgFile' = save_config(set_userinfo(c, userinfo))
                     /\ Exit(1, <<<<"Set userinfo to:",
                                    get_userinfo(set_userinfo(c, userinfo))>>>>)
                     /\ UNCHANGED histFile

ClearUserInfo(args, dir) ==
    /\ Start(args, dir, "clearuserinfo")
    /\ IF load_config_raises(cfgFile) THEN LoadFails
       ELSE /\ cfgFile' = save_config(set_userinfo(load_config(cfgFile), DEFAULT_USERINFO))
            /\ Exit(1, <<<<"Cleared userinfo.", <<>>>>>>)
            /\ UNCHANGED histFile

\* Mutant of Continuous: the loop runs on a fresh default configuration
\* instead of the one main loaded.
Continuous_DefaultConfig(args, dir) ==
    /\ Start(args, dir, "continuous")
    /\ IF load_config_raises(cfgFile) THEN LoadFails
       ELSE /\ pc' = "prompt"
            /\ config' = load_config([exists |-> FALSE, text |-> NewParser])
            /\ out' = Prompt(load_config([exists |-> FALSE, text |-> NewParser]))
            /\ UNCHANGED <<query, history, messages, exitcode, files>>

\* --continuous: the loop's first prompt.
Continuous(args, dir) ==
    /\ Start(args, dir, "continuous")
    /\ IF load_config_raises(cfgFile) THEN LoadFails
       ELSE LET c == load_config(cfgFile)
            IN  /\ IF GetRaises(c, "ai model", OPT_MODEL) THEN Crash(InterpolationError)
                   ELSE /\ pc' = "prompt"
                        /\ config' = c
                        /\ out' = Prompt(c)
                        /\ UNCHANGED <<query, history, messages, exitcode>>
                /\ UNCHANGED files

\* Mutant of ReadLine: the comparison with "quit" is missing, every line is a
\* question.
ReadLine_NoSentinel(line) ==
    /\ pc = "prompt"
    /\ run_query(line, config, cwd)
    /\ UNCHANGED <<files, argv, cwd>>

\* One line read by input() in continuous mode.
ReadLine(line) ==
    /\ pc = "prompt"
    /\ IF line = QUIT THEN Exit(1, <<<<"Goodbye.", <<>>>>>>)
       ELSE run_query(line, config, cwd)
    /\ UNCHANGED <<files, argv, cwd>>

SetProjectContext(args, dir) ==
    /\ Start(args, dir, "setprojectcontext")
    /\ IF load_config_raises(cfgFile) THEN LoadFails
       ELSE LET c == load_config(cfgFile)
                context == RestText(args)
            IN  IF context = <<>>
                THEN /\ IF get_project_context_raises(c, dir) THEN Crash(InterpolationError)
                        ELSE Exit(1, <<<<"CWD context is:", get_project_context(c, dir)>>>>)
                     /\ UNCHANGED files
                ELSE IF ~SetAccepts(context)
                THEN Crash("ValueError: invalid interpolation syntax") /\ UNCHANGED files
                ELSE /\ cfgFile' = save_config(set_project_context(c, dir, context))
                     /\ Exit(1, <<<<"Set CWD context to:",
                            get_project_context(set_project_context(c, dir, context), dir)>>>>)
                     /\ UNCHANGED histFile

ClearProjectContext(args, dir) ==
    /\ Start(args, dir, "clearprojectcontext")
    /\ IF load_config_raises(cfgFile) THEN LoadFails
       ELSE /\ cfgFile' = save_config(clear_project_context(load_config(cfgFile), dir))
            /\ Exit(1, <<<<"Cleared project context.", <<>>>>>>)
            /\ UNCHANGED histFile

\* No branch of main's chain exits: main falls through to run_query with the
\* whole command line as the question.
OneShot(args, dir) ==
    /\ Start(args, dir, "query")
    /\ IF load_config_raises(cfgFile) THEN LoadFails
       ELSE /\ run_query(QueryText(args), load_config(cfgFile), dir)
            /\ UNCHANGED files

(* ----------------------------- specification --------------------------- *)

Init ==
    /\ cfgFile = [exists |-> FALSE, text |-> NewParser]
    /\ histFile = [exists |-> FALSE, entries |-> <<>>]
    /\ pc = "idle"
    /\ argv = <<>>
    /\ cwd = <<>>
    /\ config = NewParser
    /\ query = <<>>
    /\ history = <<>>
    /\ messages = <<>>
    /\ out = <<>>
    /\ exitcode = 0

\* Every step of the program, for command lines, directories and typed lines
\* drawn from the given sets.
NextOn(argvs, dirs, lines) ==
    \/ \E args \in argvs, dir \in dirs :
        \/ Help(args, dir)
        \/ ClearHistory(args, dir)
        \/ SetModel(args, dir)
        \/ SetHistory(args, dir)
        \/ PrintHistory(args, dir)
        \/ SetUserInfo(args, dir)
        \/ ClearUserInfo(args, dir)
        \/ Continuous(args, dir)
        \/ SetProjectContext(args, dir)
        \/ ClearProjectContext(args, dir)
        \/ OneShot(args, dir)
    \/ \E line \in lines : ReadLine(line)
    \/ \E answer \in Answers : Respond(answer)
    \/ RespondEmpty
    \/ RemoteRaises
    \/ Interrupt
    \/ Return

Next == NextOn(Argvs, Dirs, Lines)

\* The configuration-centred specification.
Spec == Init /\ [][Next]_vars

NextTurns == NextOn(TurnArgvs, TurnDirs, TurnLines)

\* The turn-centred specification.
SpecTurns == Init /\ [][NextTurns]_vars

NextAdmin == NextOn(AdminArgvsAndQuery, TurnDirs, LoadLines)

\* The administration-centred specification.
SpecAdmin == Init /\ [][NextAdmin]_vars

\* Option lines a configuration file may hold when load_config reads it.
StoredLines(section) ==
    CASE section = "ai model" ->
            {WriteLine(OPT_MODEL, MODEL_GPT4O), WriteLine(OPT_HISTORY, <<"2">>)}
      [] section = "user info" -> {WriteLine(OPT_GLOBALCONTEXT, <<"r", "s">>)}
      [] section = "project context" -> {WriteLine(<<"/", "a">>, <<"r", "s">>)}

\* Configuration files as load_config may find them: absent, or with any of
\* the sections and any of their options missing (a file written by hand, or
\* by the earlier draft src/howto.py, which has no project context section).
PartialFiles ==
    {[exists |-> FALSE, text |-> NewParser]}
    \cup {[exists |-> TRUE, text |-> t] :
            t \in UNION {{f \in [S -> SUBSET UNION {StoredLines(x) : x \in SECTIONS}] :
                            \A x \in S : f[x] \subseteq StoredLines(x)} : S \in SUBSET SECTIONS}}

InitLoad ==
    /\ cfgFile \in PartialFiles
    /\ histFile = [exists |-> FALSE, entries |-> <<>>]
    /\ pc = "idle"
    /\ argv = <<>>
    /\ cwd = <<>>
    /\ config = NewParser
    /\ query = <<>>
    /\ history = <<>>
    /\ messages = <<>>
    /\ out = <<>>
    /\ exitcode = 0

NextLoad == NextOn(LoadArgvs, TurnDirs, LoadLines)

\* The load-centred specification: the program started on every partial file.
SpecLoad == InitLoad /\ [][NextLoad]_vars

(* ------------------------------- properties ---------------------------- *)

\* The step in which a query turn succeeds: the remote call returns, and the
\* process prompts again or ends with status 0.
TurnSucceeds == pc = "call" /\ (pc' = "prompt" \/ (pc' = "done" /\ exitcode' = 0))

\* The step in which a query turn is aborted: the remote call raises, returns
\* empty content or is interrupted, and the process ends with a failure status.
TurnAborts == pc = "call" /\ pc' = "done" /\ exitcode' # 0

\* The step in which a query turn starts: the remote call is made.
TurnStarts == pc # "call" /\ pc' = "call"

\* The configured history length of the running process, as a number.
ConfiguredLength == IntOf(get_history_length(config))

\* s is a contiguous suffix of t.
IsSuffix(s, t) == Len(s) <= Len(t) /\ s = SubSeq(t, Len(t) - Len(s) + 1, Len(t))

\* C1: after any successful query, for every prior history and every configured
\* history length N >= 0 (N = 0 included), the persisted history has at most N
\* entries.
C1_AtMostLengthEntries ==
    [][TurnSucceeds => Len(histFile'.entries) <= ConfiguredLength]_vars

\* The turn a successful step completes: prior history, then question, then answer.
WholeTurn(answer) ==
    load_history(histFile) \o <<Entry("user", query), Entry("assistant", answer)>>

\* C2: after a successful query with question q and answer a the persisted
\* history is a contiguous suffix of (prior history ++ [user q, assistant a]);
\* its last two entries are (user q, assistant a) whenever N >= 2; and when N is
\* at least the length of that sequence nothing is dropped.
C2_SuffixOfTurn ==
    [][TurnSucceeds =>
        \E a \in Answers :
            LET whole == WholeTurn(a)
                saved == histFile'.entries
            IN  /\ out'[1] = <<"# ", a>>
                /\ histFile'.exists
                /\ IsSuffix(saved, whole)
                /\ ConfiguredLength >= 2 =>
                        /\ Len(saved) >= 2
                        /\ SubSeq(saved, Len(saved) - 1, Len(saved))
                             = <<Entry("user", query), Entry("assistant", a)>>
                /\ ConfiguredLength >= Len(whole) => saved = whole]_vars

\* A turn has succeeded with length 3 configured and the front of the history
\* dropped: the stored history starts with an assistant entry.
C2_Witness ==
    /\ pc = "done"
    /\ exitcode = 0
    /\ Len(histFile.entries) = 3
    /\ histFile.entries[1].role = "assistant"
    /\ histFile.entries[2] = Entry("user", <<"c", "d", " ", "x">>)

\* C3: when a turn is aborted (the remote call raises, returns empty content,
\* or the user interrupts the blocked call), the persisted history and
\* configuration are what they were before the turn started, and no history
\* ending in a user entry is ever persisted.
C3_AbortedTurnWritesNothing ==
    [][/\ TurnStarts => UNCHANGED files
       /\ TurnAborts => UNCHANGED files
       /\ histFile'.entries # <<>> =>
            histFile'.entries[Len(histFile'.entries)].role = "assistant"]_vars

\* A turn was aborted by an empty answer while two earlier entries were stored.
C3_Witness ==
    /\ pc = "done"
    /\ exitcode = 1
    /\ Len(out) = 2
    /\ out[2] = <<"ValueError: OpenAI response is empty", <<>>>>
    /\ Len(histFile.entries) = 2

\* The flags main's chain recognizes.
RecognizedFlags ==
    {FLAG_HELP_LONG, FLAG_H, FLAG_CLEARHISTORY_LONG, FLAG_CH, FLAG_SETMODEL, FLAG_SETHISTORY,
     FLAG_PRINTHISTORY_LONG, FLAG_PH, FLAG_SETUSERINFO_LONG, FLAG_SU, FLAG_CLEARUSERINFO_LONG,
     FLAG_CU, FLAG_CONTINUOUS_LONG, FLAG_C, FLAG_SETPROJECTCONTEXT_LONG, FLAG_SP,
     FLAG_CLEARPROJECTCONTEXT_LONG, FLAG_CP}

\* The step in which a process starts (argv' is its command line).
Invoked == pc = "idle" /\ pc' # "idle"

\* What --setmodel and --sethistory without an argument report for a file.
ReportedModel(file) == get_model(load_config(file))

ReportedLength(file) == get_history_length(load_config(file))

\* The command line asks for a model outside the allowed set.
InvalidSetModel(args) ==
    /\ Len(args) >= 2
    /\ args[1] = FLAG_SETMODEL
    /\ args[2] \notin {DEFAULT_MODEL, MODEL_GPT4O}

\* The command line asks for a history length that str.isdigit rejects.
InvalidSetHistory(args) ==
    /\ Len(args) >= 2
    /\ args[1] = FLAG_SETHISTORY
    /\ \/ args[2] = <<>>
       \/ \E i \in 1..Len(args[2]) : args[2][i] \notin Range(DECIMALS) \cup SUPERSCRIPTS

\* C4: a validation error mutates nothing: --setmodel x with x outside the
\* allowed set, or --sethistory x with x not numeric, ends with both persisted
\* records unchanged and (the configuration file being readable) with the
\* error reported; what --setmodel / --sethistory without argument report is
\* read from the unchanged file, so it is the prior value.
C4_ValidationErrorMutatesNothing ==
    [][/\ Invoked /\ (InvalidSetModel(argv') \/ InvalidSetHistory(argv')) =>
            /\ pc' = "done"
            /\ exitcode' # 0
            /\ UNCHANGED files
       /\ Invoked /\ InvalidSetModel(argv') /\ ~load_config_raises(cfgFile) =>
            out'[1] = <<"Invalid model: ", argv'[2]>>
       /\ Invoked /\ InvalidSetHistory(argv') /\ ~load_config_raises(cfgFile) =>
            out' = <<<<"History length must be a number.", <<>>>>>>
       /\ Invoked /\ argv' = <<FLAG_SETMODEL>> /\ ~load_config_raises(cfgFile) =>
            out' = <<<<"Current model is: ", ReportedModel(cfgFile')>>>>
       /\ Invoked /\ argv' = <<FLAG_SETHISTORY>> /\ ~load_config_raises(cfgFile) =>
            out' = <<<<"History length is: ", ReportedLength(cfgFile')>>>>]_vars

\* An invalid --setmodel has ended while a non-default model was stored: the
\* stored model is still the one set before.
C4_Witness ==
    /\ pc = "done"
    /\ InvalidSetModel(argv)
    /\ out[1] = <<"Invalid model: ", <<"n", "o">>>>
    /\ cfgFile.exists
    /\ ReportedModel(cfgFile) = MODEL_GPT4O

\* The command line starts with a flag that main does not recognize.
UnrecognizedFlag(args) ==
    /\ args # <<>>
    /\ StartsWith(args[1], <<"-">>)
    /\ args[1] \notin RecognizedFlags

\* C5: when the first argument is an unrecognized flag, the program prints the
\* usage and exits with a non-zero status without performing a query: no remote
\* call is made and no persisted record is written.
C5_UnrecognizedFlagPrintsUsage ==
    [][Invoked /\ UnrecognizedFlag(argv') =>
        /\ pc' = "done"
        /\ out' = Usage
        /\ exitcode' # 0
        /\ UNCHANGED files]_vars

\* C6: on every query path (one-shot, and each line of continuous mode) a
\* question that is empty after trimming whitespace is handled as a help
\* request: no remote call is made for it, the usage is printed and the process
\* ends without writing.
C6_EmptyQuestionIsHelp ==
    /\ pc = "call" => Strip(query) # <<>>
    /\ (pc = "done" /\ Command(argv) = "query" /\ Strip(Join(argv)) = <<>>) =>
            out = Usage /\ exitcode # 0

\* What a later invocation resolves as the project context of a directory:
\* the value, or the error that load_config or the lookup raises.
ResolvedContext(file, d) ==
    IF load_config_raises(file) THEN <<"configparser.Error">>
    ELSE IF get_project_context_raises(load_config(file), d) THEN <<InterpolationError>>
    ELSE get_project_context(load_config(file), d)

\* The stored model, history length and user info, or the error of loading them.
StoredSettings(file) ==
    IF load_config_raises(file) THEN <<"configparser.Error">>
    ELSE <<RawOption(load_config(file), "ai model", OPT_MODEL),
           RawOption(load_config(file), "ai model", OPT_HISTORY),
           RawOption(load_config(file), "user info", OPT_GLOBALCONTEXT)>>

\* C7: project-context entries are independent: for directories d and d' that
\* differ as strings, setting or clearing the context for d leaves the context
\* resolved for d' unchanged, and leaves model, history length and user info
\* unchanged.
C7_ProjectContextsIndependent ==
    [][Invoked /\ Command(argv') \in {"setprojectcontext", "clearprojectcontext"} =>
        /\ \A d \in Dirs \ {cwd'} : ResolvedContext(cfgFile', d) = ResolvedContext(cfgFile, d)
        /\ StoredSettings(cfgFile') = StoredSettings(cfgFile)]_vars

\* C8: after --setprojectcontext t (t non-empty) in directory d, a later
\* invocation resolves t for d; a directory never set resolves the sentinel;
\* after --clearprojectcontext in d it resolves the sentinel again, and clearing
\* does not fail.
C8_SetGetClearProjectContext ==
    [][/\ Invoked /\ Command(argv') = "setprojectcontext" /\ RestText(argv') # <<>> =>
            ResolvedContext(cfgFile', cwd') = RestText(argv')
       /\ Invoked /\ Command(argv') = "clearprojectcontext" =>
            /\ pc' = "done"
            /\ out' = <<<<"Cleared project context.", <<>>>>>>
            /\ ResolvedContext(cfgFile', cwd') = DEFAULT_PROJECT_CONTEXT
       /\ ~cfgFile.exists =>
            \A d \in Dirs : ResolvedContext(cfgFile, d) = DEFAULT_PROJECT_CONTEXT]_vars

\* C9: the message sequence passed to the remote call for a question q is the
\* fixed system instruction, a system message embedding the current user info,
\* a system message embedding the project context resolved for the working
\* directory, the persisted history in stored order, and the user entry for q
\* last; assembling it writes nothing.
C9_MessageSequence ==
    [][TurnStarts =>
        /\ UNCHANGED files
        /\ pc = "idle" => query' = Strip(Join(argv'))
        /\ messages' =
            <<Entry("system", SYSTEM_PROMPT),
              Entry("system",
                    USERINFO_PREFIX \o get_userinfo(load_config(cfgFile)) \o <<"\"">>),
              Entry("system",
                    PROJECT_PREFIX \o get_project_context(load_config(cfgFile), cwd')
                        \o <<"\"">>)>>
            \o load_history(histFile)
            \o <<Entry("user", query')>>]_vars

\* A remote call is in flight with a stored history of two entries, a user info
\* and a project context that were set before.
C9_Witness ==
    /\ pc = "call"
    /\ Len(messages) = 6
    /\ messages[2].content = USERINFO_PREFIX \o <<"r", "s", "\"">>
    /\ messages[3].content = PROJECT_PREFIX \o <<"5", "%", "\"">>
    /\ messages[4].role = "user"
    /\ messages[5].role = "assistant"
    /\ messages[6] = Entry("user", <<"l", "s">>)

\* The file holds a value for the option.
IsStored(file, section, option) ==
    /\ file.exists
    /\ section \in DOMAIN file.text
    /\ option \in DOMAIN ReadConfig(file.text)[section]

\* The stored value of the option, or the default when the file holds none.
StoredOr(file, section, option, default) ==
    IF IsStored(file, section, option)
    THEN ReadConfig(file.text)[section][option]
    ELSE default

\* C10: after load_config the in-memory configuration is fully defaulted: on an
\* absent record it holds model "gpt-4o-mini", history "6", the user-info
\* sentinel and an empty project-context map; on a record lacking sections or
\* keys every missing key holds its default and every present key its stored
\* value.
C10_LoadedConfigFullyDefaulted ==
    pc \in {"prompt", "call"} =>
        /\ DOMAIN config = SECTIONS
        /\ DOMAIN config["ai model"] = {OPT_MODEL, OPT_HISTORY}
        /\ DOMAIN config["user info"] = {OPT_GLOBALCONTEXT}
        /\ config["ai model"][OPT_MODEL]
             = StoredOr(cfgFile, "ai model", OPT_MODEL,
                        <<"g", "p", "t", "-", "4", "o", "-", "m", "i", "n", "i">>)
        /\ config["ai model"][OPT_HISTORY]
             = StoredOr(cfgFile, "ai model", OPT_HISTORY, <<"6">>)
        /\ config["user info"][OPT_GLOBALCONTEXT]
             = StoredOr(cfgFile, "user info", OPT_GLOBALCONTEXT,
                        <<"[", "U", "s", "e", "r", " ", "h", "a", "s", " ", "n", "o", "t", " ",
                          "s", "e", "t", " ", "a", "n", "y", " ", "u", "s", "e", "r", "i", "n",
                          "f", "o", "]">>)
        /\ config["project context"]
             = IF cfgFile.exists /\ "project context" \in DOMAIN cfgFile.text
               THEN ReadConfig(cfgFile.text)["project context"]
               ELSE EmptyMap

\* The configuration was loaded from a record that stores a model but neither a
\* history length nor a user-info section.
C10_Witness ==
    /\ pc = "call"
    /\ cfgFile.exists
    /\ "user info" \notin DOMAIN cfgFile.text
    /\ "ai model" \in DOMAIN cfgFile.text
    /\ cfgFile.text["ai model"] = {WriteLine(OPT_MODEL, MODEL_GPT4O)}
    /\ config["ai model"][OPT_MODEL] = MODEL_GPT4O
    /\ config["ai model"][OPT_HISTORY] = DEFAULT_HISTORY
    /\ config["user info"][OPT_GLOBALCONTEXT] = DEFAULT_USERINFO

(* ------------------------- one command per invocation ------------------ *)

\* The flags of the administrative commands: every recognized flag but the two
\* of continuous mode.
AdministrativeFlags == RecognizedFlags \ {FLAG_CONTINUOUS_LONG, FLAG_C}

\* The process started by this step was given an administrative flag first.
AdministrativeInvocation == Invoked /\ argv' # <<>> /\ argv'[1] \in AdministrativeFlags

\* C11: an invocation whose first argument is an administrative flag (help,
\* clear-history, setmodel, sethistory, printhistory, setuserinfo,
\* clearuserinfo, setprojectcontext, clearprojectcontext), with or without
\* further arguments, has ended when the command has acted: it builds no
\* message sequence, makes no remote call, waits at no prompt, and appends
\* nothing to the persisted history (clear-history alone changes it, to empty).
C11_AdministrativeFlagEndsProcess ==
    [][AdministrativeInvocation =>
         /\ pc' = "done"
         /\ messages' = <<>>
         /\ history' = <<>>
         /\ \/ histFile' = histFile
            \/ /\ argv'[1] \in {FLAG_CLEARHISTORY_LONG, FLAG_CH}
               /\ load_history(histFile') = <<>>]_vars

\* Clear-history given a further argument has emptied a stored history and the
\* process has ended.
C11_Witness ==
    /\ pc = "done"
    /\ argv = <<FLAG_CH, <<"l", "s">>>>
    /\ out = <<<<"Cleared history.", <<>>>>>>
    /\ histFile.exists
    /\ histFile.entries = <<>>
    /\ cfgFile.exists

(* ------------------------------ clear-history -------------------------- *)

\* The process started by this step was given the clear-history flag.
ClearHistoryInvocation ==
    Invoked /\ argv' # <<>> /\ argv'[1] \in {FLAG_CLEARHISTORY_LONG, FLAG_CH}

\* C12: the clear-history command leaves the persisted history equal to the
\* empty sequence whatever it was before and leaves the configuration record
\* unchanged, and the message sequence of a query that starts on an empty
\* persisted history holds the three system messages and the question only.
C12_ClearHistoryEmptiesHistory ==
    [][/\ ClearHistoryInvocation =>
            /\ load_history(histFile') = <<>>
            /\ cfgFile' = cfgFile
       /\ TurnStarts /\ load_history(histFile) = <<>> =>
            /\ Len(messages') = 4
            /\ \A i \in 1..3 : messages'[i].role = "system"
            /\ messages'[4] = Entry("user", query')]_vars

(* ------------------------------ history length ------------------------- *)

\* A non-negative integer literal: one or more of the digits 0 to 9.
NonNegativeLiteral(x) ==
    /\ x # <<>>
    /\ \A i \in 1..Len(x) : x[i] \in {"0", "1", "2", "3", "4", "5", "6", "7", "8", "9"}

\* The process started by this step was given --sethistory and a value.
SetHistoryInvocation == Invoked /\ Len(argv') >= 2 /\ argv'[1] = FLAG_SETHISTORY

\* C13: --sethistory x accepts x exactly when x is a non-negative integer
\* literal; an accepted value is persisted, so that --sethistory without an
\* argument reports it; and the history length a readable configuration file
\* stores is always one that int() parses in the truncation step of a query.
C13_HistoryLengthIsIntegerLiteral ==
    [][/\ SetHistoryInvocation /\ ~load_config_raises(cfgFile) =>
            /\ (out'[1][1] = "History length set to: ") <=> NonNegativeLiteral(argv'[2])
            /\ out'[1][1] = "History length set to: " => ReportedLength(cfgFile') = argv'[2]
       /\ cfgFile'.exists /\ ~load_config_raises(cfgFile') =>
            IntParses(ReportedLength(cfgFile'))]_vars

(* ------------------------------ continuous mode ------------------------ *)

\* Reading this line starts one query turn: the remote call is made for the
\* line as the question, on the persisted history, and nothing is written yet.
LineTriggersTurn(line) ==
    ReadLine(line) =>
        /\ pc' = "call"
        /\ query' = line
        /\ history' = load_history(histFile) \o <<Entry("user", line)>>
        /\ UNCHANGED files

\* A turn is one remote call, and continuous mode prompts again only after the
\* turn's history (appended, truncated) and the configuration are persisted.
TurnPersistsBeforePrompt ==
    pc = "call" =>
        /\ pc' # "call"
        /\ pc' = "prompt" =>
             /\ \E answer \in Answers :
                   histFile' = save_history(Truncate(Append(history, Entry("assistant", answer)),
                                                     get_history_length(config)))
             /\ cfgFile'.exists

\* The line "quit" ends the process: no remote call, no write.
QuitEndsProcess ==
    ReadLine(QUIT) =>
        /\ pc' = "done"
        /\ out' = <<<<"Goodbye.", <<>>>>>>
        /\ UNCHANGED files

\* The empty line ends the process with the usage text: no remote call, no write.
EmptyLineIsHelp ==
    ReadLine(<<>>) =>
        /\ pc' = "done"
        /\ exitcode' = 1
        /\ out' = Usage
        /\ UNCHANGED files

QueryOutcome(cfg, hist, q, answer) ==
    LET c == load_config(cfg)
        h == load_history(hist) \o <<Entry("user", q), Entry("assistant", answer)>>
    IN  <<save_config(c), save_history(Truncate(h, get_history_length(c)))>>

\* The two records the one-shot invocation `howto q` leaves in directory dir:
\* main dispatches on q before it takes it for a question.
OneShotOutcome(cfg, hist, q, answer, dir) ==
    LET command == Command(<<q>>)
        c == load_config(cfg)
    IN  IF command = "query" THEN QueryOutcome(cfg, hist, q, answer)
        ELSE IF command = "clearhistory" THEN <<cfg, save_history(<<>>)>>
        ELSE IF command = "clearuserinfo"
        THEN <<save_config(set_userinfo(c, DEFAULT_USERINFO)), hist>>
        ELSE IF command = "clearprojectcontext"
        THEN <<save_config(clear_project_context(c, dir)), hist>>
        ELSE <<cfg, hist>>

\* A successful turn of continuous mode for a non-empty, already trimmed question.
ContinuousTurnSucceeds ==
    /\ TurnSucceeds
    /\ Command(argv) = "continuous"
    /\ query # <<>>
    /\ Strip(query) = query

\* The answer the turn printed.
PrintedAnswer == out'[1][2]

\* C15 as stated: a successful continuous-mode turn with a non-empty, already
\* trimmed question leaves the persisted history and configuration that the
\* one-shot invocation with that question and the same answer leaves on the
\* same records, and "quit" writes nothing; so k turns followed by "quit"
\* leave what k one-shot invocations leave.
C15_ContinuousEqualsOneShot ==
    [][/\ ContinuousTurnSucceeds =>
            files' = OneShotOutcome(cfgFile, histFile, query, PrintedAnswer, cwd)
       /\ ReadLine(QUIT) => UNCHANGED files]_vars

\* C15, amended: the same, for questions that main does not dispatch as one of
\* its recognized flags when they are the command line.
C15_ContinuousEqualsOneShotQuery ==
    [][/\ ContinuousTurnSucceeds /\ query \notin RecognizedFlags =>
            files' = OneShotOutcome(cfgFile, histFile, query, PrintedAnswer, cwd)
       /\ ReadLine(QUIT) => UNCHANGED files]_vars

\* Continuous mode has persisted a turn under a stored history length of 3,
\* which dropped the oldest entry.
C15_Witness ==
    /\ pc = "prompt"
    /\ Len(out) = 2
    /\ out[1][1] = "# "
    /\ get_history_length(config) = <<"3">>
    /\ Len(histFile.entries) = 3
    /\ histFile.entries[1].role = "assistant"
    /\ histFile.entries[2] = Entry("user", <<"l", "s">>)

(* ------------------------ queries and the configuration ---------------- *)

\* C16: a successful query leaves the logical configuration unchanged: the
\* configuration file it writes is readable, and the model, history length,
\* user info and every project-context entry read from it equal the values in
\* effect when the invocation loaded the configuration, which are the values
\* read from the file as it was; in the file every one of them is now stored,
\* the defaults included.
C16_QueryKeepsConfiguration ==
    [][TurnSucceeds =>
         /\ cfgFile'.exists
         /\ ~load_config_raises(cfgFile')
         /\ load_config(cfgFile') = config
         /\ load_config(cfgFile') = load_config(cfgFile)
         /\ IsStored(cfgFile', "ai model", OPT_MODEL)
         /\ IsStored(cfgFile', "ai model", OPT_HISTORY)
         /\ IsStored(cfgFile', "user info", OPT_GLOBALCONTEXT)]_vars

\* A one-shot query has succeeded under a configuration that stores a model
\* other than the default, user info and a project context with an escaped "%".
C16_Witness ==
    /\ pc = "done"
    /\ exitcode = 0
    /\ cfgFile.exists
    /\ ~load_config_raises(cfgFile)
    /\ get_model(load_config(cfgFile)) = MODEL_GPT4O
    /\ get_userinfo(load_config(cfgFile)) = <<"r", "s">>
    /\ \E d \in Dirs : get_project_context(load_config(cfgFile), d) = <<"5", "%">>

(* ------------------------------ history shape -------------------------- *)

\* The roles of neighbouring entries differ.
RolesAlternate(h) == \A i \in 1..(Len(h) - 1) : h[i].role # h[i + 1].role

\* C17: starting from an absent history, after any sequence of queries
\* (successful or aborted), clear-history commands and configuration commands,
\* the persisted history is empty or ends with an assistant entry, its entries
\* are user and assistant entries, and their roles strictly alternate (the
\* first entry may be an assistant entry).
C17_HistoryAlternates ==
    LET h == load_history(histFile)
    IN  /\ \A i \in 1..Len(h) : h[i].role \in {"user", "assistant"}
        /\ h # <<>> => h[Len(h)].role = "assistant"
        /\ RolesAlternate(h)

\* Under a stored history length of 3 the persisted history starts with an
\* assistant entry, and a further question is being asked.
C17_Witness ==
    /\ pc = "call"
    /\ get_history_length(config) = <<"3">>
    /\ Len(histFile.entries) = 3
    /\ histFile.entries[1].role = "assistant"
    /\ histFile.entries[3].role = "assistant"
    /\ Len(history) = 4

(* ------------------------- what writes the history --------------------- *)

\* The read-only forms: help, print-history, and a set flag without a value.
ReadOnlyForm(args) ==
    /\ args # <<>>
    /\ \/ args[1] \in {FLAG_HELP_LONG, FLAG_H, FLAG_PRINTHISTORY_LONG, FLAG_PH}
       \/ /\ Len(args) = 1
          /\ args[1] \in {FLAG_SETMODEL, FLAG_SETHISTORY, FLAG_SETUSERINFO_LONG, FLAG_SU,
                           FLAG_SETPROJECTCONTEXT_LONG, FLAG_SP}

\* C18: no step other than clear-history and the end of a successful query
\* changes the persisted history record: setting the model, the history length
\* (also to less than the number of stored entries), the user info or the
\* project context leaves it exactly as it was, and every read-only form
\* (help, print-history, a set flag without a value) writes neither record.
C18_OnlyClearAndQueryWriteHistory ==
    [][/\ histFile' # histFile => TurnSucceeds \/ ClearHistoryInvocation
       /\ Invoked /\ ReadOnlyForm(argv') => UNCHANGED files]_vars

\* The history length was set to 2 while 4 entries are stored: they still are.
C18_Witness ==
    /\ pc = "done"
    /\ argv = <<FLAG_SETHISTORY, <<"2">>>>
    /\ out = <<<<"History length set to: ", <<"2">>>>>>
    /\ Len(histFile.entries) = 4
    /\ get_history_length(load_config(cfgFile)) = <<"2">>

====
